---- MODULE Spec2Model ----
(***************************************************************************)
(* Model of src/app.py: the Mergington High School activities API.         *)
(*                                                                         *)
(* State: the SQLite database file data.db (tables activities and          *)
(* participants, the AUTOINCREMENT sequence of participants), the database *)
(* write lock with the uncommitted transaction of the connection holding   *)
(* it, and the requests being handled (FastAPI runs the three `def`        *)
(* handlers in a thread pool, so requests interleave between statements).  *)
(*                                                                         *)
(* SQLite facts the handlers rely on (rollback-journal mode, python        *)
(* sqlite3 with its default transaction control and default busy timeout): *)
(*  - a SELECT runs in autocommit mode and sees committed data only;       *)
(*  - INSERT/DELETE first open a transaction implicitly and take the write *)
(*    lock of the database file; the change is visible to other            *)
(*    connections after conn.commit(), which releases the lock;            *)
(*  - if another connection holds the write lock, the statement waits and  *)
(*    raises sqlite3.OperationalError ("database is locked") once the busy *)
(*    timeout expires;                                                     *)
(*  - UNIQUE(activity_name, email) makes a duplicate INSERT raise          *)
(*    sqlite3.IntegrityError;                                              *)
(*  - an AUTOINCREMENT id is one more than the largest id ever committed,  *)
(*    so ids are never reused.                                             *)
(* The columns description and schedule are written once by init_db and    *)
(* never read by a decision of the code; they are left out.                *)
(***************************************************************************)
EXTENDS Integers, Sequences, FiniteSets, TLC

VARIABLES
    db,          \* committed contents of data.db
    writer,      \* slot of the connection holding the write lock, 0 if none
    txn,         \* uncommitted participants table and sequence of the writer
    boots,       \* number of times init_db has run (module import)
    req,         \* the requests in flight: one record per handler thread
    resp,        \* the request completed last, with its response
    sequential,  \* TRUE: the client sends requests one at a time
    hist         \* the request completed before resp (sequential runs only)

vars == <<db, writer, txn, boots, req, resp, sequential, hist>>

----------------------------------------------------------------------------
(* Bounds of the model *)

\* capacity of "Chess Club" (12 in the source, scaled so that it can fill up)
ChessMax == 3
\* capacity of "Gym Class" (30 in the source, scaled)
GymMax == 3
\* largest AUTOINCREMENT id a run may hand out
MaxId == 5
\* number of times init_db may run in one behaviour
MaxBoots == 2

\* handler threads that may be in flight together
Slots == {1, 2}

\* inputs of the requests
ReqActivities == {"Chess Club", "Science Club"}
ReqEmails == {"michael", "x", "y"}

----------------------------------------------------------------------------
(* Data *)

\* SQL NULL in the INTEGER column max_participants
NULL == -1

\* INITIAL_ACTIVITIES, in dict order, with scaled capacities and the first
\* two activities of the catalogue
INITIAL_ACTIVITIES ==
    << [name |-> "Chess Club", max_participants |-> ChessMax,
        participants |-> <<"michael", "daniel">>],
       [name |-> "Gym Class", max_participants |-> GymMax,
        participants |-> <<"john">>] >>

\* data.db before the first import: absent (tables are created empty)
EmptyDB == [activities |-> {}, participants |-> {}, seq |-> 0]

\* data.db left by an earlier deployment (ids 1 and 2 were handed out and
\* deleted since): init_db keeps it as it is. The schema allows a NULL
\* max_participants, which line 207 tests for.
LegacyDB ==
    [activities |-> {[name |-> "Science Club", max_participants |-> NULL]},
     participants |-> {[id |-> 3, activity_name |-> "Science Club", email |-> "michael"]},
     seq |-> 3]

NoTxn == [participants |-> {}, seq |-> 0]

NoSnapshot == [activities |-> {}, participants |-> {}]

IdleReq ==
    [op |-> "none", a |-> "", e |-> "", pc |-> "idle", max_p |-> NULL,
     count |-> 0, rowid |-> 0, open |-> FALSE, opened |-> 0,
     status |-> 0, detail |-> "", exc |-> "", rowcount |-> 0,
     boot |-> 0, before |-> NoSnapshot, listing |-> {}]

----------------------------------------------------------------------------
(* SQL statements as operators on the tables *)

\* SELECT ... FROM activities WHERE name = ?
ActivityRows(d, a) == {act \in d.activities : act.name = a}

\* SELECT ... FROM participants WHERE activity_name = ? AND email = ?
PairRows(rows, a, e) == {p \in rows : p.activity_name = a /\ p.email = e}

\* SELECT COUNT(*) FROM participants WHERE activity_name = ?
CountFor(rows, a) == Cardinality({p \in rows : p.activity_name = a})

\* seeded fault: the table is declared without its UNIQUE constraint
NoUniqueConstraint(rows, a, e) == FALSE

\* UNIQUE(activity_name, email): would INSERT (a, e) violate it
UniqueViolation(rows, a, e) == PairRows(rows, a, e) # {}

\* INSERT INTO participants (activity_name, email) VALUES (?, ?), on a
\* transaction view t = [participants, seq]; the caller has checked UNIQUE
InsertRow(t, a, e) ==
    [participants |-> t.participants \cup
        {[id |-> t.seq + 1, activity_name |-> a, email |-> e]},
     seq |-> t.seq + 1]

\* seeded fault: the DELETE has lost its WHERE clause
DeleteWithoutWhere(rows, id) == {}

\* DELETE FROM participants WHERE id = ?
DeleteById(rows, id) == {p \in rows : p.id # id}

\* seeded fault: the capacity test is missing
IsFullNoCheck(max_p, count) == FALSE

\* seeded fault: the capacity test is off by one (count > max_p)
IsFullOffByOne(max_p, count) == max_p # NULL /\ count > max_p

\* seeded fault: the capacity test forgets that max_p may be NULL
IsFullNullBlind(max_p, count) == count >= max_p

\* if max_p is not None and count >= max_p
IsFull(max_p, count) == max_p # NULL /\ count >= max_p

\* seeded fault: init_db seeds without looking at the COUNT(*)
NeedsSeedAlways(d) == TRUE

\* row and row["c"] == 0
NeedsSeed(d) == Cardinality(d.activities) = 0

\* name TEXT PRIMARY KEY: would seeding the catalogue violate it
PrimaryKeyViolation(d, catalogue) ==
    \E i \in 1..Len(catalogue) : ActivityRows(d, catalogue[i].name) # {}

\* the inner loop of init_db: the participants of one seeded activity
RECURSIVE SeedParticipants(_, _, _)
SeedParticipants(t, name, emails) ==
    IF emails = <<>> THEN t
    ELSE SeedParticipants(
            IF UniqueViolation(t.participants, name, Head(emails))
            THEN t   \* except sqlite3.IntegrityError: pass
            ELSE InsertRow(t, name, Head(emails)),
            name, Tail(emails))

\* the outer loop of init_db over INITIAL_ACTIVITIES.items()
RECURSIVE SeedActivities(_, _)
SeedActivities(d, catalogue) ==
    IF catalogue = <<>> THEN d
    ELSE LET c == Head(catalogue)
             t == SeedParticipants([participants |-> d.participants, seq |-> d.seq],
                                   c.name, c.participants)
         IN SeedActivities(
               [activities |-> d.activities \cup
                    {[name |-> c.name, max_participants |-> c.max_participants]},
                participants |-> t.participants,
                seq |-> t.seq],
               Tail(catalogue))

\* SELECT activity_name, email FROM participants: SQLite scans the table
\* in rowid order
RECURSIVE ScanByRowid(_)
ScanByRowid(rows) ==
    IF rows = {} THEN <<>>
    ELSE LET first == CHOOSE x \in rows : \A y \in rows : x.id <= y.id
         IN <<first>> \o ScanByRowid(rows \ {first})

\* the emails of the scanned rows whose activity_name is a, in scan order
RECURSIVE EmailsOf(_, _)
EmailsOf(scan, a) ==
    IF scan = <<>> THEN <<>>
    ELSE (IF Head(scan).activity_name = a THEN <<Head(scan).email>> ELSE <<>>)
         \o EmailsOf(Tail(scan), a)

\* build_activity_dict and the loop of get_activities that fills the lists
Listing(activities, rows) ==
    {[name |-> act.name, max_participants |-> act.max_participants,
      participants |-> EmailsOf(ScanByRowid(rows), act.name)] : act \in activities}

----------------------------------------------------------------------------
(* Requests *)

InFlight(r) == req[r].pc # "idle"

\* get_db_conn(): a fresh request with its own connection; boot is the
\* import of the module that serves it. In sequential runs the request
\* remembers the tables it started from.
Opened(op, a, e) ==
    [IdleReq EXCEPT !.op = op, !.a = a, !.e = e, !.open = TRUE, !.opened = 1,
                    !.boot = boots,
                    !.before = IF sequential
                               THEN [activities |-> db.activities,
                                     participants |-> db.participants]
                               ELSE NoSnapshot]

\* conn.close() followed by raise HTTPException / return {...}
Respond(rec, status, detail) ==
    [rec EXCEPT !.pc = "done", !.status = status, !.detail = detail,
                !.open = FALSE]

\* an exception no handler code catches: the server answers 500 and
\* conn.close() is not reached
Uncaught(rec, exc) ==
    [rec EXCEPT !.pc = "done", !.status = 500,
                !.detail = "Internal Server Error", !.exc = exc]

\* seeded fault: the INSERT is not wrapped in try/except
IntegrityUncaught(rec) == Uncaught(rec, "IntegrityError")

\* except sqlite3.IntegrityError: conn.close(); raise HTTPException(400)
IntegrityHandler(rec) == Respond(rec, 400, "Student is already signed up")

\* the handler thread r ends with response out
Completes(r, out) ==
    /\ req' = [req EXCEPT ![r] = IdleReq]
    /\ resp' = out
    /\ hist' = IF sequential THEN resp ELSE hist

\* the handler thread r goes on as rec
Continues(r, rec) ==
    /\ req' = [req EXCEPT ![r] = rec]
    /\ UNCHANGED <<resp, hist>>

CanStart(r) ==
    /\ boots >= 1
    /\ ~InFlight(r)
    /\ sequential => \A q \in Slots : ~InFlight(q)

----------------------------------------------------------------------------
(* init_db, run when the module is imported *)

InitDb ==
    /\ boots < MaxBoots
    /\ \A r \in Slots : ~InFlight(r)
    /\ db' = IF NeedsSeed(db) /\ ~PrimaryKeyViolation(db, INITIAL_ACTIVITIES)
             THEN SeedActivities(db, INITIAL_ACTIVITIES)
             ELSE db   \* nothing to seed, or the import fails uncommitted
    /\ boots' = boots + 1
    /\ UNCHANGED <<writer, txn, req, resp, sequential, hist>>

----------------------------------------------------------------------------
(* get_activities *)

\* the whole handler: both SELECTs (the activities table never changes once
\* seeded, so reading it at the time of the second SELECT is exact),
\* conn.close() and the return
GetActivities(r) ==
    /\ CanStart(r)
    /\ Completes(r, [Respond(Opened("list", "", ""), 200, "OK")
                        EXCEPT !.listing = Listing(db.activities, db.participants)])
    /\ UNCHANGED <<db, writer, txn, boots, sequential>>

----------------------------------------------------------------------------
(* signup_for_activity *)

\* ids the signups in flight may still consume
IdsReserved == Cardinality({q \in Slots : req[q].op = "signup"})

\* get_db_conn and "Validate activity exists"
SignupBegin(r, a, e) ==
    /\ CanStart(r)
    /\ db.seq + IdsReserved < MaxId
    /\ LET rec == Opened("signup", a, e)
           row == ActivityRows(db, a)
       IN IF row = {}
          THEN Completes(r, Respond(rec, 404, "Activity not found"))
          ELSE Continues(r, [rec EXCEPT !.pc = "s_dup",
                               !.max_p = (CHOOSE x \in row : TRUE).max_participants])
    /\ UNCHANGED <<db, writer, txn, boots, sequential>>

\* "Check if already signed up"
SignupCheckDup(r) ==
    /\ req[r].pc = "s_dup"
    /\ IF PairRows(db.participants, req[r].a, req[r].e) # {}
       THEN Completes(r, Respond(req[r], 400, "Student is already signed up"))
       ELSE Continues(r, [req[r] EXCEPT !.pc = "s_count"])
    /\ UNCHANGED <<db, writer, txn, boots, sequential>>

\* seeded fault: the row is inserted and committed before the capacity
\* test, which then still raises "Activity is full"
SignupCheckCapacityLate(r) ==
    /\ req[r].pc = "s_count"
    /\ writer = 0
    /\ LET rec == [req[r] EXCEPT !.count = CountFor(db.participants, req[r].a)]
           t == InsertRow([participants |-> db.participants, seq |-> db.seq],
                          rec.a, rec.e)
       IN /\ db' = [db EXCEPT !.participants = t.participants, !.seq = t.seq]
          /\ IF IsFull(rec.max_p, rec.count)
             THEN Completes(r, Respond(rec, 400, "Activity is full"))
             ELSE Completes(r, Respond(rec, 200, "Signed up"))
    /\ UNCHANGED <<writer, txn, boots, sequential>>

\* "Enforce capacity"
SignupCheckCapacity(r) ==
    /\ req[r].pc = "s_count"
    /\ LET rec == [req[r] EXCEPT !.count = CountFor(db.participants, req[r].a)]
       IN IF IsFull(rec.max_p, rec.count)
          THEN Completes(r, Respond(rec, 400, "Activity is full"))
          ELSE Continues(r, [rec EXCEPT !.pc = "s_insert"])
    /\ UNCHANGED <<db, writer, txn, boots, sequential>>

\* the INSERT of "Insert participant". Taking the step while another
\* connection holds the write lock is the expiry of the busy timeout;
\* waiting for the lock is not taking the step.
SignupInsert(r) ==
    /\ req[r].pc = "s_insert"
    /\ IF writer # 0
       THEN /\ Completes(r, Uncaught(req[r], "OperationalError"))
            /\ UNCHANGED <<writer, txn>>
       ELSE IF UniqueViolation(db.participants, req[r].a, req[r].e)
            THEN \* except sqlite3.IntegrityError: close (rolls back), raise 400
                 /\ Completes(r, IntegrityHandler([req[r] EXCEPT !.exc = "IntegrityError"]))
                 /\ UNCHANGED <<writer, txn>>
            ELSE /\ writer' = r
                 /\ txn' = InsertRow([participants |-> db.participants, seq |-> db.seq],
                                     req[r].a, req[r].e)
                 /\ Continues(r, [req[r] EXCEPT !.pc = "s_commit"])
    /\ UNCHANGED <<db, boots, sequential>>

\* conn.commit(), conn.close() and the return of the message
SignupCommit(r) ==
    /\ req[r].pc = "s_commit"
    /\ writer = r
    /\ db' = [db EXCEPT !.participants = txn.participants, !.seq = txn.seq]
    /\ writer' = 0
    /\ txn' = NoTxn
    /\ Completes(r, Respond(req[r], 200, "Signed up"))
    /\ UNCHANGED <<boots, sequential>>

----------------------------------------------------------------------------
(* unregister_from_activity *)

\* get_db_conn and "Validate activity exists"
UnregisterBegin(r, a, e) ==
    /\ CanStart(r)
    /\ LET rec == Opened("unregister", a, e)
       IN IF ActivityRows(db, a) = {}
          THEN Completes(r, Respond(rec, 404, "Activity not found"))
          ELSE Continues(r, [rec EXCEPT !.pc = "u_lookup"])
    /\ UNCHANGED <<db, writer, txn, boots, sequential>>

\* "Validate student is signed up": SELECT id ... ; if not row
UnregisterLookup(r) ==
    /\ req[r].pc = "u_lookup"
    /\ LET row == PairRows(db.participants, req[r].a, req[r].e)
       IN IF row = {}
          THEN Completes(r, Respond(req[r], 400, "Student is not signed up for this activity"))
          ELSE Continues(r, [req[r] EXCEPT !.pc = "u_delete",
                                !.rowid = (CHOOSE x \in row : TRUE).id])
    /\ UNCHANGED <<db, writer, txn, boots, sequential>>

\* DELETE FROM participants WHERE id = ?; rowcount is what cur.rowcount
\* would hold (the code does not read it)
UnregisterDelete(r) ==
    /\ req[r].pc = "u_delete"
    /\ IF writer # 0
       THEN /\ Completes(r, Uncaught(req[r], "OperationalError"))
            /\ UNCHANGED <<writer, txn>>
       ELSE LET left == DeleteById(db.participants, req[r].rowid)
            IN /\ writer' = r
               /\ txn' = [participants |-> left, seq |-> db.seq]
               /\ Continues(r, [req[r] EXCEPT !.pc = "u_commit",
                                   !.rowcount = Cardinality(db.participants \ left)])
    /\ UNCHANGED <<db, boots, sequential>>

\* conn.commit(), conn.close() and the return of the message
UnregisterCommit(r) ==
    /\ req[r].pc = "u_commit"
    /\ writer = r
    /\ db' = [db EXCEPT !.participants = txn.participants, !.seq = txn.seq]
    /\ writer' = 0
    /\ txn' = NoTxn
    /\ Completes(r, Respond(req[r], 200, "Unregistered"))
    /\ UNCHANGED <<boots, sequential>>

----------------------------------------------------------------------------
(* Specifications *)

InitCommon ==
    /\ db \in {EmptyDB, LegacyDB}
    /\ writer = 0
    /\ txn = NoTxn
    /\ boots = 0
    /\ req = [r \in Slots |-> IdleReq]
    /\ resp = IdleReq
    /\ hist = IdleReq

\* requests of concurrent clients
Init == InitCommon /\ sequential = FALSE

\* a client that waits for each response before its next request
InitSeq == InitCommon /\ sequential = TRUE

Next ==
    \/ InitDb
    \/ \E r \in Slots : GetActivities(r)
    \/ \E r \in Slots, a \in ReqActivities, e \in ReqEmails : SignupBegin(r, a, e)
    \/ \E r \in Slots : SignupCheckDup(r)
    \/ \E r \in Slots : SignupCheckCapacity(r)
    \/ \E r \in Slots : SignupInsert(r)
    \/ \E r \in Slots : SignupCommit(r)
    \/ \E r \in Slots, a \in ReqActivities, e \in ReqEmails : UnregisterBegin(r, a, e)
    \/ \E r \in Slots : UnregisterLookup(r)
    \/ \E r \in Slots : UnregisterDelete(r)
    \/ \E r \in Slots : UnregisterCommit(r)

Spec == Init /\ [][Next]_vars

SpecSeq == InitSeq /\ [][Next]_vars

----------------------------------------------------------------------------
(* Properties *)

Count(a) == CountFor(db.participants, a)

Bounded(act) == act.max_participants # NULL

\* C1: in sequential runs every activity with a capacity holds at most
\* max_participants participant records.
C1_CapacityRespected ==
    \A act \in db.activities : Bounded(act) => Count(act.name) <= act.max_participants

\* C1 witness: a sequential signup was refused with "Activity is full" on
\* an activity that holds exactly max_participants records.
C1_FullActivityRefuses ==
    /\ sequential
    /\ resp.op = "signup" /\ resp.detail = "Activity is full"
    /\ \E act \in db.activities :
          /\ act.name = resp.a /\ Bounded(act)
          /\ Count(act.name) = act.max_participants

\* C2: under any interleaving the participants table holds at most one
\* record per (activity_name, email) pair.
C2_PairUnique ==
    \A p, q \in db.participants :
        (p.activity_name = q.activity_name /\ p.email = q.email) => p = q

\* C2 witness: two signups for the same pair have both passed the duplicate
\* pre-check and both stand before their INSERT.
C2_TwoSignupsRace ==
    \E r, q \in Slots :
        /\ r # q
        /\ req[r].pc = "s_insert" /\ req[q].pc = "s_insert"
        /\ req[r].a = req[q].a /\ req[r].e = req[q].e

\* the outcome the three checks give, in their order, on the tables t
ExpectedSignup(t, a, e) ==
    LET row == {act \in t.activities : act.name = a}
        n == Cardinality({p \in t.participants : p.activity_name = a})
    IN IF row = {} THEN <<404, "Activity not found">>
       ELSE IF \E p \in t.participants : p.activity_name = a /\ p.email = e
            THEN <<400, "Student is already signed up">>
       ELSE IF \E act \in row : act.max_participants # NULL /\ n >= act.max_participants
            THEN <<400, "Activity is full">>
       ELSE <<200, "Signed up">>

\* C3: a signup run without interleaving answers 404, then 400 "already
\* signed up", then 400 "Activity is full" (never for a NULL capacity), in
\* that order of precedence, and otherwise succeeds and has inserted exactly
\* the record of its pair.
C3_SignupDecision ==
    (sequential /\ resp.op = "signup") =>
        /\ <<resp.status, resp.detail>> = ExpectedSignup(resp.before, resp.a, resp.e)
        /\ resp.status = 200 =>
              /\ Cardinality(db.participants \ resp.before.participants) = 1
              /\ \A p \in db.participants \ resp.before.participants :
                    p.activity_name = resp.a /\ p.email = resp.e
              /\ resp.before.participants \subseteq db.participants

\* C3 witness: a signup of an already registered student for an activity
\* that is full was answered "Student is already signed up".
C3_DuplicateOnFullActivity ==
    /\ sequential
    /\ resp.op = "signup" /\ resp.detail = "Student is already signed up"
    /\ \E act \in resp.before.activities :
          /\ act.name = resp.a /\ Bounded(act)
          /\ CountFor(resp.before.participants, act.name) >= act.max_participants

\* C4: a signup or unregister that fails with 404 or 400 leaves both tables
\* as they were when the request began.
C4_FailureChangesNothing ==
    (sequential /\ resp.op \in {"signup", "unregister"} /\ resp.status \in {400, 404}) =>
        /\ db.activities = resp.before.activities
        /\ db.participants = resp.before.participants

\* C4 witness: a signup succeeded and the same signup, repeated at once,
\* failed as a duplicate.
C4_DuplicateAfterSignup ==
    /\ sequential
    /\ hist.op = "signup" /\ hist.status = 200
    /\ resp.op = "signup" /\ resp.a = hist.a /\ resp.e = hist.e
    /\ resp.status = 400

SignupThenUnregister ==
    /\ sequential
    /\ hist.op = "signup" /\ hist.status = 200
    /\ resp.op = "unregister" /\ resp.a = hist.a /\ resp.e = hist.e

\* C5: an unregister that immediately follows a successful signup of the
\* same pair succeeds, and get_activities then lists for every activity the
\* participants, in the order, it listed before the signup.
C5_RoundTrip ==
    SignupThenUnregister =>
        /\ resp.status = 200
        /\ Listing(db.activities, db.participants)
             = Listing(hist.before.activities, hist.before.participants)

\* C5 witness: the round trip was made on an activity that lists two or
\* more participants.
C5_RoundTripDone ==
    /\ SignupThenUnregister
    /\ \E l \in Listing(db.activities, db.participants) :
          l.name = resp.a /\ Len(l.participants) >= 2

\* C6: init_db run on a database whose activities table is not empty
\* changes no row of either table.
C6_BootstrapIdempotent ==
    [][(boots' # boots /\ db.activities # {}) => db' = db]_vars

\* C6 witness: init_db ran a second time after a seeded participant had
\* been unregistered and another student signed up; neither was undone.
C6_RebootedAfterChanges ==
    /\ boots = 2 /\ resp.boot = 1
    /\ resp.op = "signup" /\ resp.status = 200 /\ resp.a = "Chess Club"
    /\ PairRows(db.participants, "Chess Club", "michael") = {}
    /\ PairRows(db.participants, "Chess Club", resp.e) # {}

\* C7: the capacity test is not atomic with the insert: a commit takes an
\* activity above its capacity only when the count the request read is
\* older than (smaller than) the count at the time of its insert.
C7_OverflowOnlyByStaleCount ==
    [][\A r \in Slots :
          (req[r].pc = "s_commit" /\ req'[r].pc = "idle" /\ req[r].max_p # NULL
             /\ CountFor(db'.participants, req[r].a) > req[r].max_p)
          => req[r].count < CountFor(db.participants, req[r].a)]_vars

\* C7 witness: an activity holds more records than its max_participants.
C7_OverCapacity ==
    \E act \in db.activities : Bounded(act) /\ Count(act.name) > act.max_participants

C9_SuccessDeletedOneRecord ==
    (resp.op = "unregister" /\ resp.status = 200) => resp.rowcount = 1

\* C10 as claimed: every request opens one connection and has closed it
\* when its response or failure is returned.
C10_ConnectionClosed ==
    resp.op # "none" => (resp.opened = 1 /\ ~resp.open)

====
